---------------------------- MODULE Spec2Model ----------------------------
(***************************************************************************)
(* NowTVIE._real_extract (youtube_dl/extractor/nowtv.py) as a state        *)
(* machine: one run of the extractor on one URL, against one document      *)
(* served by the metadata API.                                             *)
(*                                                                         *)
(* Python strings are sequences of one-character strings.  JSON values     *)
(* are tagged records, one field name per JSON type, so that values of     *)
(* different types are never compared field by field.                      *)
(***************************************************************************)
EXTENDS Integers, Sequences, FiniteSets, TLC

VARIABLES
    url_id,      \* the <id> group of _VALID_URL captured from the URL
    response,    \* the document the API serves for this run (or a failure)
    pc,          \* position of the run inside _real_extract
    display_id,  \* local display_id
    request,     \* the identifiers _download_json was called with, in order
    info,        \* local info
    video_id,    \* local video_id
    files,       \* local files
    formats,     \* local formats
    item_idx,    \* position of the for loop in files['items']
    raised,      \* the exception that left _real_extract, if any
    result       \* the dictionary _real_extract returned, if any

vars == <<url_id, response, pc, display_id, request, info, video_id, files,
          formats, item_idx, raised, result>>

---------------------------------------------------------------------------
(* Bounds of the model *)

MaxSlugLen == 4

MaxItems == 2

---------------------------------------------------------------------------
(* JSON values *)

JNull == [null |-> TRUE]

JBool(b) == [bool |-> b]

JNum(n) == [num |-> n]

JStr(s) == [str |-> s]

JList(l) == [list |-> l]

JDict(d) == [dict |-> d]

\* a key that the dictionary does not hold
Missing == [missing |-> TRUE]

IsNull(v) == "null" \in DOMAIN v

IsDict(v) == "dict" \in DOMAIN v

IsList(v) == "list" \in DOMAIN v

IsStr(v) == "str" \in DOMAIN v

IsNum(v) == "num" \in DOMAIN v

\* Python truth value of a JSON value (the `not x`, `x or y` tests)
Truthy(v) ==
    CASE "null" \in DOMAIN v -> FALSE
      [] "bool" \in DOMAIN v -> v.bool
      [] "num" \in DOMAIN v -> v.num # 0
      [] "str" \in DOMAIN v -> Len(v.str) > 0
      [] "list" \in DOMAIN v -> Len(v.list) > 0
      [] "dict" \in DOMAIN v -> DOMAIN v.dict # {}

\* d[key] is evaluable
HasKey(d, key) == IsDict(d) /\ key \in DOMAIN d.dict

\* dict.get(key, default)
Get(d, key, default) == IF key \in DOMAIN d.dict THEN d.dict[key] ELSE default

\* x or y
PyOr(x, y) == IF Truthy(x) THEN x ELSE y

\* the dictionary holding the fields of the record f that are not Missing
DictOf(f) == JDict([k \in {x \in DOMAIN f : f[x] # Missing} |-> f[k]])

---------------------------------------------------------------------------
(* Strings *)

\* the index of the first occurrence of the character c in s, 0 if none
RECURSIVE FindFrom(_, _, _)
FindFrom(s, c, i) ==
    IF i > Len(s) THEN 0
    ELSE IF s[i] = c THEN i
    ELSE FindFrom(s, c, i + 1)

Find(s, c) == FindFrom(s, c, 1)

\* the index of the last occurrence of the character c in s, 0 if none
RECURSIVE RFindFrom(_, _, _)
RFindFrom(s, c, i) ==
    IF i < 1 THEN 0
    ELSE IF s[i] = c THEN i
    ELSE RFindFrom(s, c, i - 1)

RFind(s, c) == RFindFrom(s, c, Len(s))

\* s.split(c)
RECURSIVE Split(_, _)
Split(s, c) ==
    LET i == Find(s, c)
    IN IF i = 0 THEN <<s>>
       ELSE <<SubSeq(s, 1, i - 1)>> \o Split(SubSeq(s, i + 1, Len(s)), c)

\* s.split(c, 1)
Split1(s, c) ==
    LET i == Find(s, c)
    IN IF i = 0 THEN <<s>>
       ELSE <<SubSeq(s, 1, i - 1), SubSeq(s, i + 1, Len(s))>>

\* c.join((a, b))
Join2(c, a, b) == a \o <<c>> \o b

\* the decimal digits of a natural number
Digit(n) == <<"0", "1", "2", "3", "4", "5", "6", "7", "8", "9">>[n + 1]

RECURSIVE compat_str(_)
compat_str(n) ==
    IF n < 10 THEN <<Digit(n)>>
    ELSE compat_str(n \div 10) \o <<Digit(n % 10)>>

\* utils.remove_start(s, start) for a one-character start
remove_start(s, c) ==
    IF Len(s) > 0 /\ s[1] = c THEN SubSeq(s, 2, Len(s)) ELSE s

AlnumChars == {"a", "s", "v", "f", "m", "p", "4", "0", "1", "2", "3"}

UnknownVideo == <<"u", "n", "k", "n", "o", "w", "n">>

\* utils.determine_ext(url): the text after the last '.', when alphanumeric
determine_ext(url) ==
    LET q == Find(url, "?")
        base == IF q = 0 THEN url ELSE SubSeq(url, 1, q - 1)
        guess == SubSeq(base, RFind(base, ".") + 1, Len(base))
    IN IF Len(guess) > 0 /\ \A i \in 1..Len(guess) : guess[i] \in AlnumChars
       THEN guess
       ELSE UnknownVideo

F4V == <<"f", "4", "v">>


---------------------------------------------------------------------------
(* Pure steps of _real_extract *)

\* DeriveDisplayId joining the first segment with the second, not the last
DeriveDisplayId_SecondSegment(id) ==
    LET display_id_split == Split(id, "/")
    IN IF Len(id) > 2 /\ Len(display_id_split) > 1
       THEN Join2("/", display_id_split[1], display_id_split[2])
       ELSE id

\* lines 140-142: the identifier derived from the captured <id>
DeriveDisplayId(id) ==
    LET display_id_split == Split(id, "/")
    IN IF Len(id) > 2
       THEN Join2("/", display_id_split[1],
                  display_id_split[Len(display_id_split)])
       ELSE id

\* AvailabilityGate testing the paywall before the geo block
AvailabilityGate_PaywallFirst(fs, inf) ==
    IF ~Truthy(fs)
    THEN IF ~Truthy(Get(inf, "free", JBool(TRUE))) THEN "paywall"
         ELSE IF Truthy(Get(inf, "geoblocked", JBool(FALSE))) THEN "geo"
         ELSE "pass"
    ELSE "pass"

\* AvailabilityGate taking a missing `free` for False
AvailabilityGate_FreeDefaultFalse(fs, inf) ==
    IF ~Truthy(fs)
    THEN IF Truthy(Get(inf, "geoblocked", JBool(FALSE))) THEN "geo"
         ELSE IF ~Truthy(Get(inf, "free", JBool(FALSE))) THEN "paywall"
         ELSE "pass"
    ELSE "pass"

\* lines 151-158: what the availability gate does with files and info
AvailabilityGate(fs, inf) ==
    IF ~Truthy(fs)
    THEN IF Truthy(Get(inf, "geoblocked", JBool(FALSE))) THEN "geo"
         ELSE IF ~Truthy(Get(inf, "free", JBool(TRUE))) THEN "paywall"
         ELSE "pass"
    ELSE "pass"

\* SkipsItem with the comparison inverted
SkipsItem_Inverted(item) == determine_ext(item.dict["path"].str) = F4V

\* line 162: the loop skips the item
SkipsItem(item) == determine_ext(item.dict["path"].str) # F4V

\* line 164: the two names app, play_path can be bound to the split
Unpacks(item) == Len(Split1(remove_start(item.dict["path"].str, "/"), "/")) = 2

\* utils.int_or_none
int_or_none(v) == IF IsNull(v) THEN JNull ELSE JNum(v.num)

\* MakeFormat without remove_start
MakeFormat_NoRemoveStart(item) ==
    LET parts == Split1(item.dict["path"].str, "/")
        app == parts[1]
        play_path == parts[2]
    IN [url |-> "rtmpe://fms.rtl.de",
        app |-> app,
        play_path |-> <<"m", "p", "4", ":">> \o play_path,
        ext |-> "flv",
        page_url |-> "http://rtlnow.rtl.de",
        player_url |-> "http://cdn.static-fra.de/now/vodplayer.swf",
        tbr |-> int_or_none(Get(item, "bitrate", JNull))]

\* lines 164-173: the format appended for an item
MakeFormat(item) ==
    LET parts == Split1(remove_start(item.dict["path"].str, "/"), "/")
        app == parts[1]
        play_path == parts[2]
    IN [url |-> "rtmpe://fms.rtl.de",
        app |-> app,
        play_path |-> <<"m", "p", "4", ":">> \o play_path,
        ext |-> "flv",
        page_url |-> "http://rtlnow.rtl.de",
        player_url |-> "http://cdn.static-fra.de/now/vodplayer.swf",
        tbr |-> int_or_none(Get(item, "bitrate", JNull))]

\* InfoExtractor._sort_formats: ascending bitrate, unknown bitrate lowest,
\* ties in their original order
TbrKey(f) == IF IsNull(f.tbr) THEN -1 ELSE f.tbr.num

RECURSIVE InsertFormat(_, _)
InsertFormat(sorted, f) ==
    IF sorted = <<>> THEN <<f>>
    ELSE IF TbrKey(sorted[Len(sorted)]) <= TbrKey(f) THEN Append(sorted, f)
    ELSE Append(InsertFormat(SubSeq(sorted, 1, Len(sorted) - 1), f),
                sorted[Len(sorted)])

RECURSIVE SortFormats(_)
SortFormats(fs) ==
    IF fs = <<>> THEN <<>>
    ELSE InsertFormat(SortFormats(SubSeq(fs, 1, Len(fs) - 1)), fs[Len(fs)])

\* Description preferring the short form
Description_ShortFirst(inf) ==
    PyOr(Get(inf, "articleShort", JNull), Get(inf, "articleLong", JNull))

\* line 177
Description(inf) ==
    PyOr(Get(inf, "articleLong", JNull), Get(inf, "articleShort", JNull))

\* line 182
Thumbnail(f) ==
    PyOr(Get(f, "defaultImage169Format", JNull),
         Get(f, "defaultImage169Logo", JNull))

BroadcastStartDate == <<"2", "0", "1", "5", "-", "0", "5", "-", "2", "5", " ", "2", "1", ":", "0", "5", ":", "0", "0">>

DurationText == <<"0", "0", ":", "4", "6", ":", "2", "6">>

\* utils.parse_iso8601(date_str, ' '): absent or unparseable gives None
parse_iso8601(v) ==
    IF IsStr(v) /\ v.str = BroadcastStartDate THEN JNum(1432580700) ELSE JNull

\* utils.parse_duration: absent or unparseable gives None
parse_duration(v) ==
    IF IsStr(v) /\ v.str = DurationText THEN JNum(2786) ELSE JNull

---------------------------------------------------------------------------
(* Inputs: the captured <id> of the URL and the document the API serves *)

SlugChars == {"a", "b", "/"}

\* every non-empty <id> of at most MaxSlugLen characters
Slugs == UNION {[1..n -> SlugChars] : n \in 1..MaxSlugLen}

TestSlug == <<"a", "/", "b">>

Paths ==
    {<<"/", "a", "/", "s", "/", "v", ".", "f", "4", "v">>,
     <<"a", "/", "v", ".", "f", "4", "v">>,
     <<"/", "/", "a", "/", "v", ".", "f", "4", "v">>,
     <<"/", "a", "/", "v", ".", "m", "p", "4">>,
     <<"/", "a", "/", "v">>,
     <<"v", ".", "f", "4", "v">>,
     <<"/", "v", ".", "f", "4", "v">>}

Bitrates == {Missing, JNum(800), JNum(1500)}

Items ==
    {DictOf([path |-> p, bitrate |-> b]) :
        p \in {JStr(x) : x \in Paths} \cup {Missing}, b \in Bitrates}

\* every list of at most MaxItems file descriptors
ItemLists == UNION {[1..n -> Items] : n \in 0..MaxItems}

EmptyDict == DictOf([items |-> Missing])

GoodItem == DictOf([path |-> JStr(<<"/", "a", "/", "s", "/", "v", ".", "f", "4", "v">>), bitrate |-> JNum(800)])

GoodFiles == DictOf([items |-> JList(<<GoodItem>>)])

GoodFormat ==
    DictOf([defaultImage169Format |-> JStr(<<"i">>),
            defaultImage169Logo |-> JStr(<<"l">>)])

GoodFields ==
    [id |-> JNum(203519),
     title |-> JStr(<<"T">>),
     free |-> JBool(TRUE),
     geoblocked |-> JBool(FALSE),
     articleLong |-> JStr(<<"L">>),
     articleShort |-> JStr(<<"S">>),
     broadcastStartDate |-> JStr(BroadcastStartDate),
     duration |-> JStr(DurationText),
     format |-> GoodFormat,
     files |-> GoodFiles]

\* _download_json fails (network, HTTP status, malformed JSON)
TransportFailure == [transport_failure |-> TRUE]

Flags == {Missing, JNull, JBool(TRUE), JBool(FALSE)}

FilesValues ==
    {Missing, JNull, EmptyDict, JList(<<>>), DictOf([items |-> JList(<<>>)]),
     GoodFiles}

Texts(t) == {Missing, JNull, JStr(<<>>), JStr(<<t>>)}

FormatValues ==
    {Missing, JNull, EmptyDict, GoodFormat,
     DictOf([defaultImage169Format |-> Missing,
             defaultImage169Logo |-> JStr(<<"l">>)])}

\* documents that vary the mandatory fields and the availability flags
GateResponses ==
    {DictOf([GoodFields EXCEPT !.id = i, !.title = t, !.files = fs,
                               !.geoblocked = g, !.free = fr]) :
        i \in {Missing, JNum(203519)}, t \in {Missing, JStr(<<"T">>)},
        fs \in FilesValues, g \in Flags, fr \in Flags}

\* documents that vary the optional fields
OptionalResponses ==
    {DictOf([GoodFields EXCEPT !.articleLong = al, !.articleShort = as,
                               !.format = f, !.broadcastStartDate = d,
                               !.duration = du]) :
        al \in Texts("L"), as \in Texts("S"), f \in FormatValues,
        d \in {Missing, JStr(BroadcastStartDate)},
        du \in {Missing, JStr(DurationText)}}

\* documents that vary the file descriptors
FilesResponses ==
    {DictOf([GoodFields EXCEPT !.files = DictOf([items |-> JList(l)])]) :
        l \in ItemLists}

IdentifierResponses ==
    {DictOf(GoodFields), TransportFailure,
     DictOf([GoodFields EXCEPT !.files = JNull, !.geoblocked = JBool(TRUE)])}

\* the runs explored: every <id> against three documents, and one <id>
\* against every document of the three families above (each family varies
\* one group of fields and keeps the others as in GoodFields)
Inputs ==
    (Slugs \X IdentifierResponses)
    \cup ({TestSlug} \X (GateResponses \cup OptionalResponses
                         \cup FilesResponses))

---------------------------------------------------------------------------
(* The run *)

NoException == [exc |-> "none", msg |-> "", video_id |-> <<>>,
                expected |-> FALSE]

Exception(exc, msg, vid, expected) ==
    [exc |-> exc, msg |-> msg, video_id |-> vid, expected |-> expected]

Init ==
    /\ \E in \in Inputs : url_id = in[1] /\ response = in[2]
    /\ pc = "match_id"
    /\ display_id = <<>>
    /\ request = <<>>
    /\ info = JNull
    /\ video_id = <<>>
    /\ files = JNull
    /\ formats = <<>>
    /\ item_idx = 0
    /\ raised = NoException
    /\ result = JNull

\* raise e
Raise(e) ==
    /\ pc' = "raised"
    /\ raised' = e

\* lines 139-142
MatchId ==
    /\ pc = "match_id"
    /\ display_id' = DeriveDisplayId(url_id)
    /\ pc' = "download"
    /\ UNCHANGED <<url_id, response, request, info, video_id, files, formats,
                   item_idx, raised, result>>

\* lines 144-146, the document arrives
DownloadJson ==
    /\ pc = "download"
    /\ response # TransportFailure
    /\ request' = Append(request, display_id)
    /\ info' = response
    /\ pc' = "video_id"
    /\ UNCHANGED <<url_id, response, display_id, video_id, files, formats,
                   item_idx, raised, result>>

\* lines 144-146, _download_json raises
DownloadJsonFails ==
    /\ pc = "download"
    /\ response = TransportFailure
    /\ request' = Append(request, display_id)
    /\ Raise(Exception("ExtractorError", "download", <<>>, TRUE))
    /\ UNCHANGED <<url_id, response, display_id, info, video_id, files,
                   formats, item_idx, result>>

\* line 148
ReadVideoId ==
    /\ pc = "video_id"
    /\ IF HasKey(info, "id")
       THEN /\ video_id' = compat_str(info.dict["id"].num)
            /\ pc' = "files"
            /\ UNCHANGED raised
       ELSE /\ Raise(Exception("KeyError", "id", <<>>, FALSE))
            /\ UNCHANGED video_id
    /\ UNCHANGED <<url_id, response, display_id, request, info, files,
                   formats, item_idx, result>>

\* line 150
ReadFiles ==
    /\ pc = "files"
    /\ IF HasKey(info, "files")
       THEN /\ files' = info.dict["files"]
            /\ pc' = "gate"
            /\ UNCHANGED raised
       ELSE /\ Raise(Exception("KeyError", "files", <<>>, FALSE))
            /\ UNCHANGED files
    /\ UNCHANGED <<url_id, response, display_id, request, info, video_id,
                   formats, item_idx, result>>

\* lines 151-155
RaiseGeoRestricted ==
    /\ pc = "gate"
    /\ AvailabilityGate(files, info) = "geo"
    /\ Raise(Exception("ExtractorError", "geo restriction", video_id, TRUE))
    /\ UNCHANGED <<url_id, response, display_id, request, info, video_id,
                   files, formats, item_idx, result>>

\* RaiseNotFree reporting the error and carrying on instead of raising
RaiseNotFree_Continues ==
    /\ pc = "gate"
    /\ AvailabilityGate(files, info) = "paywall"
    /\ raised' = Exception("ExtractorError", "not available for free",
                           video_id, TRUE)
    /\ pc' = "items"
    /\ UNCHANGED <<url_id, response, display_id, request, info, video_id,
                   files, formats, item_idx, result>>

\* lines 151-158
RaiseNotFree ==
    /\ pc = "gate"
    /\ AvailabilityGate(files, info) = "paywall"
    /\ Raise(Exception("ExtractorError", "not available for free", video_id,
                       TRUE))
    /\ UNCHANGED <<url_id, response, display_id, request, info, video_id,
                   files, formats, item_idx, result>>

\* lines 151-158, no raise
PassGate ==
    /\ pc = "gate"
    /\ AvailabilityGate(files, info) = "pass"
    /\ pc' = "items"
    /\ UNCHANGED <<url_id, response, display_id, request, info, video_id,
                   files, formats, item_idx, raised, result>>

\* files['items'] is evaluable and iterable
HasItems(fs) == HasKey(fs, "items") /\ IsList(fs.dict["items"])

\* lines 160-161: formats = [] and the for loop starts
EnterLoop ==
    /\ pc = "items"
    /\ formats' = <<>>
    /\ IF HasItems(files)
       THEN /\ item_idx' = 1
            /\ pc' = "loop"
            /\ UNCHANGED raised
       ELSE /\ Raise(Exception(IF IsDict(files) THEN "KeyError"
                               ELSE "TypeError", "items", <<>>, FALSE))
            /\ UNCHANGED item_idx
    /\ UNCHANGED <<url_id, response, display_id, request, info, video_id,
                   files, result>>

\* the items the loop goes through
LoopItems == files.dict["items"].list

\* lines 162-173: one iteration of the loop
LoopBody ==
    /\ pc = "loop"
    /\ item_idx <= Len(LoopItems)
    /\ LET item == LoopItems[item_idx]
       IN IF ~HasKey(item, "path")
          THEN /\ Raise(Exception("KeyError", "path", <<>>, FALSE))
               /\ UNCHANGED <<formats, item_idx>>
          ELSE IF SkipsItem(item)
          THEN /\ item_idx' = item_idx + 1
               /\ UNCHANGED <<formats, pc, raised>>
          ELSE IF ~Unpacks(item)
          THEN /\ Raise(Exception("ValueError", "unpack", <<>>, FALSE))
               /\ UNCHANGED <<formats, item_idx>>
          ELSE /\ formats' = Append(formats, MakeFormat(item))
               /\ item_idx' = item_idx + 1
               /\ UNCHANGED <<pc, raised>>
    /\ UNCHANGED <<url_id, response, display_id, request, info, video_id,
                   files, result>>

\* line 161: the loop is exhausted
ExitLoop ==
    /\ pc = "loop"
    /\ item_idx > Len(LoopItems)
    /\ pc' = "sort"
    /\ UNCHANGED <<url_id, response, display_id, request, info, video_id,
                   files, formats, item_idx, raised, result>>

\* line 174
SortFormatsStep ==
    /\ pc = "sort"
    /\ formats' = SortFormats(formats)
    /\ pc' = "assemble"
    /\ UNCHANGED <<url_id, response, display_id, request, info, video_id,
                   files, item_idx, raised, result>>

\* lines 176-193
Assemble ==
    /\ pc = "assemble"
    /\ IF ~HasKey(info, "title")
       THEN /\ Raise(Exception("KeyError", "title", <<>>, FALSE))
            /\ UNCHANGED result
       ELSE IF ~IsDict(Get(info, "format", EmptyDict))
       THEN /\ Raise(Exception("AttributeError", "get", <<>>, FALSE))
            /\ UNCHANGED result
       ELSE /\ result' =
                 [id |-> video_id,
                  display_id |-> display_id,
                  title |-> info.dict["title"],
                  description |-> Description(info),
                  thumbnail |-> Thumbnail(Get(info, "format", EmptyDict)),
                  timestamp |->
                      parse_iso8601(Get(info, "broadcastStartDate", JNull)),
                  duration |-> parse_duration(Get(info, "duration", JNull)),
                  formats |-> formats]
            /\ pc' = "returned"
            /\ UNCHANGED raised
    /\ UNCHANGED <<url_id, response, display_id, request, info, video_id,
                   files, formats, item_idx>>

Next ==
    \/ MatchId
    \/ DownloadJson
    \/ DownloadJsonFails
    \/ ReadVideoId
    \/ ReadFiles
    \/ RaiseGeoRestricted
    \/ RaiseNotFree
    \/ PassGate
    \/ EnterLoop
    \/ LoopBody
    \/ ExitLoop
    \/ SortFormatsStep
    \/ Assemble

Spec == Init /\ [][Next]_vars

\* the run is one synchronous call: it keeps executing until it leaves
FairSpec == Spec /\ WF_vars(Next)

Done == pc \in {"returned", "raised"}

---------------------------------------------------------------------------
(* Properties *)

\* the document was fetched and is the dictionary the run works on
Fetched == pc \notin {"match_id", "download"} /\ IsDict(info)

\* the field of the fetched document, Missing if it has none
Field(key) == Get(info, key, Missing)

VideoIdText == <<"2", "0", "3", "5", "1", "9">>

\* `files` is there and empty (null, {} or [])
FilesEmpty == HasKey(info, "files") /\ ~Truthy(info.dict["files"])

GeoRestrictedError ==
    Exception("ExtractorError", "geo restriction", VideoIdText, TRUE)

NotFreeError ==
    Exception("ExtractorError", "not available for free", VideoIdText, TRUE)

\* C1: when the fetched document (with its id) has an empty `files` and
\* `geoblocked` true, the run ends with the expected geo-restriction error
\* carrying the video id, whatever `free` is (true, false, null or missing),
\* and never with the paywall error
C1_GeoRestrictedWhateverFree ==
    (Done /\ Fetched /\ HasKey(info, "id") /\ FilesEmpty
          /\ Field("geoblocked") = JBool(TRUE))
    => (pc = "raised" /\ raised = GeoRestrictedError /\ result = JNull)

C1_Witness ==
    /\ pc = "raised"
    /\ raised = GeoRestrictedError
    /\ FilesEmpty
    /\ Field("free") = JBool(FALSE)

\* C2: when the fetched document (with its id) has an empty `files`,
\* `geoblocked` false or missing and `free` false, the run ends with the
\* expected 'not available for free' error; and when `free` is true or
\* missing no run ends with that error
C2_NotFreeError ==
    /\ (Done /\ Fetched /\ HasKey(info, "id") /\ FilesEmpty
             /\ Field("geoblocked") \in {JBool(FALSE), Missing}
             /\ Field("free") = JBool(FALSE))
       => (pc = "raised" /\ raised = NotFreeError /\ result = JNull)
    /\ (Fetched /\ Field("free") \in {JBool(TRUE), Missing})
       => raised.msg # "not available for free"

C2_Witness ==
    /\ pc = "raised"
    /\ raised = NotFreeError
    /\ FilesEmpty
    /\ Field("geoblocked") = Missing
    /\ Field("free") = JBool(FALSE)

\* C3: when the fetched document (with id and title) has an empty `files`,
\* `geoblocked` false or missing and `free` true or missing, the run returns
\* a result whose formats list is empty
C3_EmptyFilesFallThrough ==
    (Done /\ Fetched /\ HasKey(info, "id") /\ HasKey(info, "title")
          /\ FilesEmpty
          /\ Field("geoblocked") \in {JBool(FALSE), Missing}
          /\ Field("free") \in {JBool(TRUE), Missing})
    => (pc = "returned" /\ result.formats = <<>>)

\* the text of s before its first '/' and after its last '/'
FirstSegment(s) == SubSeq(s, 1, Find(s, "/") - 1)

LastSegment(s) == SubSeq(s, RFind(s, "/") + 1, Len(s))

FirstSlashLast(s) == FirstSegment(s) \o <<"/">> \o LastSegment(s)

\* C4: for a captured <id> longer than 2 characters that holds a '/', the
\* derived display id is firstSegment/lastSegment; it is the key of the
\* API lookup and the display_id of the result
C4_FirstAndLastSegment ==
    (pc # "match_id" /\ Len(url_id) > 2 /\ Find(url_id, "/") > 0)
    => /\ display_id = FirstSlashLast(url_id)
       /\ \A i \in 1..Len(request) : request[i] = FirstSlashLast(url_id)
       /\ pc = "returned" => result.display_id = FirstSlashLast(url_id)

C4_Witness ==
    /\ pc = "returned"
    /\ url_id = <<"/", "a", "/", "b">>
    /\ result.display_id = <<"/", "b">>
    /\ request = <<result.display_id>>

\* C5: for a captured <id> without a '/', of any length, the derived
\* display id is the captured <id> unchanged
C5_SingleSegmentUnchanged ==
    (pc # "match_id" /\ Find(url_id, "/") = 0) => display_id = url_id

\* the path of a file descriptor
PathOf(item) == item.dict["path"].str

\* the format f was built from the file descriptor item: its app and play
\* path give back the path, its bitrate is the descriptor's
BuiltFrom(f, item) ==
    /\ SubSeq(f.play_path, 1, 4) = <<"m", "p", "4", ":">>
    /\ f.app \o <<"/">> \o SubSeq(f.play_path, 5, Len(f.play_path))
         = (IF PathOf(item)[1] = "/" THEN Tail(PathOf(item))
            ELSE PathOf(item))
    /\ f.tbr = Get(item, "bitrate", JNull)

IsF4v(item) == determine_ext(PathOf(item)) = F4V

Stripped(item) ==
    IF PathOf(item)[1] = "/" THEN Tail(PathOf(item)) ELSE PathOf(item)

\* the format of an f4v path: app is the text before the first '/' of the
\* stripped path, play path is 'mp4:' and the remainder
Normalized(f, item) ==
    LET i == Find(Stripped(item), "/")
        app == IF i = 0 THEN Stripped(item)
               ELSE SubSeq(Stripped(item), 1, i - 1)
        remainder == IF i = 0 THEN <<>>
                     ELSE SubSeq(Stripped(item), i + 1, Len(Stripped(item)))
    IN /\ f.app = app
       /\ f.play_path = <<"m", "p", "4", ":">> \o remainder
       /\ f.ext = "flv"
       /\ f.url = "rtmpe://fms.rtl.de"

\* the loop has executed its body on the k-th descriptor
Executed(k) ==
    /\ item_idx >= 1
    /\ k <= Len(LoopItems)
    /\ k < item_idx \/ (k = item_idx /\ pc = "raised")

Present(v) == IsStr(v) /\ Len(v.str) > 0

Absent(v) == v = Missing \/ IsNull(v)

C9_OnlyIdAndTitleMandatory ==
    (Done /\ Fetched /\ HasKey(info, "id") /\ HasKey(info, "title")
          /\ raised.msg \notin {"geo restriction", "not available for free"})
    => pc = "returned"

\* the one fetch is made with the derived identifier, after the derivation
\* and before anything is read from the document
OneFetch ==
    /\ pc \in {"match_id", "download"} => request = <<>>
    /\ pc \notin {"match_id", "download"} => request = <<display_id>>
    /\ pc # "match_id" => display_id = DeriveDisplayId(url_id)

\* a result or an exception, never both, and only when the run has ended
OneOutcome ==
    /\ pc = "returned" <=> result # JNull
    /\ pc = "raised" <=> raised # NoException

\* C10: every run makes exactly one fetch, after the identifier derivation
\* and before the availability gate; it ends, with either a result or an
\* exception and never both; and once it has ended nothing more happens,
\* no fetch and no result after an exception
C10_OneFetchOneOutcome ==
    /\ [](OneFetch /\ OneOutcome)
    /\ [][~Done]_vars
    /\ <>Done

C10_Witness ==
    /\ pc = "raised"
    /\ raised = NotFreeError
    /\ request = <<display_id>>
    /\ result = JNull

============================================================================
